---- MODULE Spec2Model ----
(***************************************************************************)
(* Model of backend/main.py of troedelmarkt: the seller registry, the      *)
(* settlement endpoint POST /sell, the bearer-token authority and the      *)
(* process-wide database_lock taken by the get_session dependency.         *)
(*                                                                         *)
(* Every request is served by a worker thread (all handlers and both       *)
(* dependencies are plain `def`, which FastAPI runs in its thread pool).   *)
(* A thread's position in its handler is pc[t]; one action is one step of  *)
(* a handler between two accesses of shared state.                         *)
(***************************************************************************)
EXTENDS Integers, Sequences, FiniteSets, TLC

(* ------------------------------ bounds --------------------------------- *)
\* worker threads serving requests concurrently
NumThreads == 2
\* requests served in one behaviour
MaxRequests == 3
\* items in one POST /sell batch
MaxItems == 2
\* values time.time() takes while the process runs: 0..MaxTime
MaxTime == 1
\* requests served in one behaviour checked for progress
LiveRequests == 2

Threads == 1..NumThreads
Ids == {"A", "B"}
Hosts == {"h1", "h2"}
Timestamps == 0..MaxTime

(* ------------------------- decimal.Decimal ----------------------------- *)
\* A Decimal is coefficient * 10^exp (exp <= 0 here); a balance is stored
\* as the text str(Decimal), modelled as its sequence of characters.
DigitChars == <<"0", "1", "2", "3", "4", "5", "6", "7", "8", "9">>

DigitChar(d) == DigitChars[d + 1]

CharDigit(c) == CHOOSE d \in 0..9 : DigitChars[d + 1] = c

Abs(n) == IF n < 0 THEN -n ELSE n

RECURSIVE Pow10(_)
Pow10(n) == IF n <= 0 THEN 1 ELSE 10 * Pow10(n - 1)

RECURSIVE NatToChars(_)
NatToChars(n) ==
    IF n < 10 THEN <<DigitChar(n)>>
    ELSE Append(NatToChars(n \div 10), DigitChar(n % 10))

RECURSIVE Zeros(_)
Zeros(n) == IF n <= 0 THEN <<>> ELSE <<"0">> \o Zeros(n - 1)

RECURSIVE CharsToNat(_)
CharsToNat(s) ==
    IF s = <<>> THEN 0
    ELSE 10 * CharsToNat(SubSeq(s, 1, Len(s) - 1)) + CharDigit(s[Len(s)])

\* str(Decimal): sign, digits, and a point -exp places from the right
DecimalToStr(d) ==
    LET scale == -d.exp
        ds == NatToChars(Abs(d.coef))
        padded == IF Len(ds) <= scale
                  THEN Zeros(scale - Len(ds) + 1) \o ds ELSE ds
        split == Len(padded) - scale
        body == IF scale = 0 THEN padded
                ELSE SubSeq(padded, 1, split) \o <<".">>
                     \o SubSeq(padded, split + 1, Len(padded))
    IN IF d.coef < 0 THEN <<"-">> \o body ELSE body

\* Decimal(str)
StrToDecimal(s) ==
    LET neg == s[1] = "-"
        body == IF neg THEN SubSeq(s, 2, Len(s)) ELSE s
        dots == {i \in 1..Len(body) : body[i] = "."}
        dot == IF dots = {} THEN Len(body) + 1 ELSE CHOOSE i \in dots : TRUE
        digits == SubSeq(body, 1, dot - 1) \o SubSeq(body, dot + 1, Len(body))
        mag == CharsToNat(digits)
    IN [coef |-> IF neg THEN -mag ELSE mag,
        exp |-> IF dots = {} THEN 0 ELSE -(Len(body) - dot)]

\* DecimalAdd with the coefficients added as they stand, unaligned
DecimalAdd_unaligned(a, b) == [coef |-> a.coef + b.coef, exp |-> a.exp]

\* Decimal.__add__: the result takes the smaller exponent
DecimalAdd(a, b) ==
    LET e == IF a.exp < b.exp THEN a.exp ELSE b.exp
    IN [coef |-> a.coef * Pow10(a.exp - e) + b.coef * Pow10(b.exp - e), exp |-> e]

\* Decimal.__mul__
DecimalMul(a, b) == [coef |-> a.coef * b.coef, exp |-> a.exp + b.exp]

\* Decimal.__sub__
DecimalSub(a, b) == DecimalAdd(a, [coef |-> -b.coef, exp |-> b.exp])

\* Decimal(x) != 0
DecimalIsZero(d) == d.coef = 0

\* the prices a client sends: 10.50 and -10.50
Prices == {[coef |-> 1050, exp |-> -2], [coef |-> -1050, exp |-> -2]}

\* a Decimal's exact value in hundredths (no price has a finer exponent)
Hundredths(d) == d.coef * Pow10(d.exp + 2)

(* --------------------------- request inputs ---------------------------- *)
Ops == {"login", "get_sellers", "post_seller", "get_seller", "delete_seller",
        "patch_seller", "sell", "exportcsv"}

\* CONFIG["service"]["pswd"] and the passwords a client may send
ConfigPswd == "pswd"
Passwords == {"pswd", "guess"}

\* jwt.encode({"host", "timestamp"}, secret) is a function of its payload
jwt_encode(host, ts) == [host |-> host, ts |-> ts]
Tokens == {jwt_encode(h, ts) : h \in Hosts, ts \in Timestamps}
\* request.headers.get("Authorization") is None
NoKey == [host |-> "", ts |-> -1]
\* a header value that no login can mint
Forged == [host |-> "forged", ts |-> -1]
\* the header values a client may present
ApiKeys == Tokens \cup {Forged, NoKey}

\* hmac.compare_digest
compare_digest(a, b) == a = b

ItemModels == [sellerId : Ids, price : Prices]
Batches == UNION {[1..n -> ItemModels] : n \in 0..MaxItems}

SellerClientModels == [id : Ids, name : {"n1"}, rate : {<<"0", ".", "1">>}]
\* SellerModifyModel: a field left out is ""
SellerModifyModels == {[name |-> "n2", rate |-> <<>>],
                       [name |-> "", rate |-> <<"0", ".", "2">>]}

(* ------------------------------- state --------------------------------- *)
VARIABLES
    sellers,            \* the sellers table: id -> [name, balance, rate]
    database_lock,      \* 0 when free, else the thread holding it
    REGISTERED_TOKENS,  \* the process-wide token set
    transaction_log,    \* the add_transaction calls made, in order
    pc,                 \* each thread's position
    op,                 \* the endpoint each thread is serving
    loc,                \* each thread's local variables
    resp,               \* each thread's response
    nreq,               \* requests received so far
    commits,            \* history: the batches committed, in commit order
    applied,            \* history: per seller, hundredths applied since creation
    issued              \* history: the tokens returned by a 200 login

vars == <<sellers, database_lock, REGISTERED_TOKENS, transaction_log, pc, op,
          loc, resp, nreq, commits, applied, issued>>

EmptyFn == [x \in {} |-> x]
NoSeller == [id |-> "", name |-> "", balance |-> <<>>, rate |-> <<>>]

\* `before` is history: the balances ep_sell found in its snapshot
Loc0 == [api_key |-> NoKey, was_issued |-> FALSE, it_size |-> 0,
         it_seen |-> {}, password |-> "",
         token |-> NoKey, items |-> <<>>, origin |-> "", sql_sellers |-> EmptyFn,
         relevant_sellers |-> {}, seller |-> NoSeller, before |-> EmptyFn]

Resp0 == [status |-> 0, sellers |-> <<>>, token |-> NoKey, error |-> EmptyFn,
          rows |-> <<>>]

Response(status) == [Resp0 EXCEPT !.status = status]

(* ------------------- data_interaction (crud) and schemas --------------- *)
IdOrder == <<"A", "B">>

RECURSIVE SeqOfIds(_, _)
SeqOfIds(S, i) ==
    IF i > Len(IdOrder) THEN <<>>
    ELSE (IF IdOrder[i] \in S THEN <<IdOrder[i]>> ELSE <<>>) \o SeqOfIds(S, i + 1)

\* the row of seller id as an ORM object
SellerObject(db, id) ==
    [id |-> id, name |-> db[id].name, balance |-> db[id].balance,
     rate |-> db[id].rate]

\* crud.get_all_sellers(session): every seller, as a list
get_all_sellers(db) ==
    LET ids == SeqOfIds(DOMAIN db, 1)
    IN [i \in 1..Len(ids) |-> SellerObject(db, ids[i])]

\* crud.get_seller(session, id): the seller or None
get_seller(db, id) == IF id \in DOMAIN db THEN SellerObject(db, id) ELSE NoSeller

\* crud.new_seller(session, seller): a new row with balance 0
new_seller(db, seller) ==
    [id \in DOMAIN db \cup {seller.id} |->
        IF id = seller.id
        THEN [name |-> seller.name, balance |-> <<"0">>, rate |-> seller.rate]
        ELSE db[id]]

\* crud.remove_seller(session, seller): the row is deleted
remove_seller(db, seller) == [id \in DOMAIN db \ {seller.id} |-> db[id]]

\* crud.update_seller(session, id, modification): name and/or rate replaced
update_seller(db, id, modification) ==
    [db EXCEPT ![id] =
        [name |-> IF modification.name = "" THEN @.name ELSE modification.name,
         balance |-> @.balance,
         rate |-> IF modification.rate = <<>> THEN @.rate ELSE modification.rate]]

\* session.commit(): the balances of the session's changed objects are written
session_commit(db, objects, dirty) ==
    [id \in DOMAIN db |->
        IF id \in dirty THEN [db[id] EXCEPT !.balance = objects[id].balance]
        ELSE db[id]]

\* SellerServerModel.from_sql(seller)
from_sql(seller) ==
    [id |-> seller.id, name |-> seller.name, balance |-> seller.balance,
     rate |-> seller.rate]

(* --------------------------- Token Authority --------------------------- *)
\* CustomKeyAuthorisation.is_authorised: the result of an undisturbed scan
is_authorised(tokens, token) ==
    \E reg_token \in tokens : compare_digest(reg_token, token)

Finish(t, r) == /\ resp' = [resp EXCEPT ![t] = r]
                /\ pc' = [pc EXCEPT ![t] = "done"]

\* a handler running under get_session leaves through its finally clause
Leave(t, r) == /\ resp' = [resp EXCEPT ![t] = r]
               /\ pc' = [pc EXCEPT ![t] = "release"]

\* a request arrives and a worker thread takes it
receive(t) ==
    /\ pc[t] \in {"idle", "done"}
    /\ nreq < MaxRequests
    /\ \E o \in Ops :
         /\ op' = [op EXCEPT ![t] = o]
         /\ pc' = [pc EXCEPT ![t] = IF o = "login" THEN "login" ELSE "acquire"]
    /\ loc' = [loc EXCEPT ![t] = Loc0]
    /\ resp' = [resp EXCEPT ![t] = Resp0]
    /\ nreq' = nreq + 1
    /\ UNCHANGED <<sellers, database_lock, REGISTERED_TOKENS, transaction_log,
                   commits, applied, issued>>

\* ep_login with the token minted whatever the password
ep_login_unchecked(t) ==
    /\ pc[t] = "login"
    /\ \E password \in Passwords, host \in Hosts, ts \in Timestamps :
         /\ loc' = [loc EXCEPT ![t].password = password,
                               ![t].token = jwt_encode(host, ts)]
         /\ pc' = [pc EXCEPT ![t] = "login_add"]
    /\ UNCHANGED <<sellers, database_lock, REGISTERED_TOKENS, transaction_log,
                   op, resp, nreq, commits, applied, issued>>

\* ep_login: the password check and the minting of the token
ep_login(t) ==
    /\ pc[t] = "login"
    /\ \E password \in Passwords, host \in Hosts, ts \in Timestamps :
         IF ~compare_digest(password, ConfigPswd)
         THEN /\ Finish(t, Response(401))
              /\ loc' = [loc EXCEPT ![t].password = password]
         ELSE /\ loc' = [loc EXCEPT ![t].password = password,
                                    ![t].token = jwt_encode(host, ts)]
              /\ pc' = [pc EXCEPT ![t] = "login_add"]
              /\ UNCHANGED resp
    /\ UNCHANGED <<sellers, database_lock, REGISTERED_TOKENS, transaction_log,
                   op, nreq, commits, applied, issued>>

\* ep_login_add with the token never registered
ep_login_add_dropped(t) ==
    /\ pc[t] = "login_add"
    /\ pc' = [pc EXCEPT ![t] = "login_return"]
    /\ UNCHANGED <<sellers, database_lock, REGISTERED_TOKENS, transaction_log,
                   op, loc, resp, nreq, commits, applied, issued>>

\* ep_login: REGISTERED_TOKENS.add(token)
ep_login_add(t) ==
    /\ pc[t] = "login_add"
    /\ REGISTERED_TOKENS' = REGISTERED_TOKENS \cup {loc[t].token}
    /\ pc' = [pc EXCEPT ![t] = "login_return"]
    /\ UNCHANGED <<sellers, database_lock, transaction_log, op, loc, resp, nreq,
                   commits, applied, issued>>

\* ep_login: return Response(token, 200)
ep_login_return(t) ==
    /\ pc[t] = "login_return"
    /\ Finish(t, [Response(200) EXCEPT !.token = loc[t].token])
    /\ issued' = issued \cup {loc[t].token}
    /\ UNCHANGED <<sellers, database_lock, REGISTERED_TOKENS, transaction_log,
                   op, loc, nreq, commits, applied>>

\* get_session_enter without the wait for the lock
get_session_enter_nolock(t) ==
    /\ pc[t] = "acquire"
    /\ database_lock' = t
    /\ pc' = [pc EXCEPT ![t] = "auth"]
    /\ UNCHANGED <<sellers, REGISTERED_TOKENS, transaction_log, op, loc, resp,
                   nreq, commits, applied, issued>>

\* get_session up to its yield: `with database_lock` blocks until it is free
get_session_enter(t) ==
    /\ pc[t] = "acquire"
    /\ database_lock = 0
    /\ database_lock' = t
    /\ pc' = [pc EXCEPT ![t] = "auth"]
    /\ UNCHANGED <<sellers, REGISTERED_TOKENS, transaction_log, op, loc, resp,
                   nreq, commits, applied, issued>>

\* get_session_exit without the with statement: an exception in the handler
\* passes the release
get_session_exit_on_return(t) ==
    /\ pc[t] = "release"
    /\ database_lock' = IF resp[t].status = 500 THEN database_lock ELSE 0
    /\ pc' = [pc EXCEPT ![t] = "done"]
    /\ loc' = [loc EXCEPT ![t] = Loc0]
    /\ UNCHANGED <<sellers, REGISTERED_TOKENS, transaction_log, op, resp, nreq,
                   commits, applied, issued>>

\* get_session after its yield: session.close() and the lock released; the
\* request's locals are gone
get_session_exit(t) ==
    /\ pc[t] = "release"
    /\ database_lock' = 0
    /\ pc' = [pc EXCEPT ![t] = "done"]
    /\ loc' = [loc EXCEPT ![t] = Loc0]
    /\ UNCHANGED <<sellers, REGISTERED_TOKENS, transaction_log, op, resp,
                   nreq, commits, applied, issued>>

\* CustomKeyAuthorisation.__call__: the header is read; with none, 401; else
\* is_authorised creates the iterator over REGISTERED_TOKENS and takes its
\* first turn (no other thread runs between the two)
auth_call(t) ==
    /\ pc[t] = "auth"
    /\ \E api_key \in ApiKeys :
         IF api_key = NoKey
         THEN Leave(t, Response(401)) /\ UNCHANGED loc
         ELSE IF REGISTERED_TOKENS = {}
         THEN /\ Leave(t, Response(401))
              /\ loc' = [loc EXCEPT ![t].api_key = api_key]
         ELSE \E reg_token \in REGISTERED_TOKENS :
                /\ loc' = [loc EXCEPT
                        ![t].api_key = api_key,
                        ![t].was_issued = api_key \in issued,
                        ![t].it_size = Cardinality(REGISTERED_TOKENS),
                        ![t].it_seen = {reg_token}]
                /\ pc' = [pc EXCEPT ![t] =
                        IF compare_digest(reg_token, api_key)
                        THEN "handler" ELSE "auth_iter"]
                /\ UNCHANGED resp
    /\ UNCHANGED <<sellers, database_lock, REGISTERED_TOKENS, transaction_log,
                   op, nreq, commits, applied, issued>>

\* a later turn of `for reg_token in REGISTERED_TOKENS`: the set iterator
\* raises RuntimeError when the set's size has changed since the loop began
is_authorised_next(t) ==
    /\ pc[t] = "auth_iter"
    /\ IF Cardinality(REGISTERED_TOKENS) # loc[t].it_size
       THEN Leave(t, Response(500)) /\ UNCHANGED loc
       ELSE IF REGISTERED_TOKENS \subseteq loc[t].it_seen
       THEN Leave(t, Response(401)) /\ UNCHANGED loc
       ELSE \E reg_token \in REGISTERED_TOKENS \ loc[t].it_seen :
              IF compare_digest(reg_token, loc[t].api_key)
              THEN /\ pc' = [pc EXCEPT ![t] = "handler"]
                   /\ UNCHANGED <<loc, resp>>
              ELSE /\ loc' = [loc EXCEPT ![t].it_seen = @ \cup {reg_token}]
                   /\ UNCHANGED <<pc, resp>>
    /\ UNCHANGED <<sellers, database_lock, REGISTERED_TOKENS, transaction_log,
                   op, nreq, commits, applied, issued>>

(* -------------------------- registry endpoints ------------------------- *)
AtHandler(t, o) == pc[t] = "handler" /\ op[t] = o

\* a handler step that touches neither the table, the log nor the history
ReadOnly ==
    UNCHANGED <<sellers, database_lock, REGISTERED_TOKENS, transaction_log, op,
                nreq, commits, applied, issued>>

\* [SellerServerModel.from_sql(seller) for seller in sellers]
views(objects) == [i \in 1..Len(objects) |-> from_sql(objects[i])]

ep_get_sellers(t) ==
    /\ AtHandler(t, "get_sellers")
    /\ Leave(t, [Response(200) EXCEPT
                    !.sellers = views(get_all_sellers(sellers))])
    /\ UNCHANGED loc
    /\ ReadOnly

ep_post_seller(t) ==
    /\ AtHandler(t, "post_seller")
    /\ \E seller \in SellerClientModels :
         IF seller.id \in DOMAIN sellers
         THEN \* crud.new_seller raises RuntimeError
              /\ Leave(t, Response(409))
              /\ UNCHANGED <<sellers, applied>>
         ELSE /\ sellers' = new_seller(sellers, seller)
              /\ applied' = [applied EXCEPT ![seller.id] = 0]
              /\ Leave(t, [Response(200) EXCEPT !.sellers =
                    <<from_sql(get_seller(sellers', seller.id))>>])
    /\ UNCHANGED <<database_lock, REGISTERED_TOKENS, transaction_log, op, loc,
                   nreq, commits, issued>>

ep_get_seller(t) ==
    /\ AtHandler(t, "get_seller")
    /\ \E seller_id \in Ids :
         LET seller == get_seller(sellers, seller_id)
         IN IF seller = NoSeller
            THEN Leave(t, Response(404))
            ELSE Leave(t, [Response(200) EXCEPT !.sellers = <<from_sql(seller)>>])
    /\ UNCHANGED loc
    /\ ReadOnly

\* ep_delete_seller giving database_lock up once the seller is loaded
ep_delete_seller_unlocked(t) ==
    /\ AtHandler(t, "delete_seller")
    /\ \E seller_id \in Ids :
         LET seller == get_seller(sellers, seller_id)
         IN IF seller = NoSeller
            THEN Leave(t, Response(404)) /\ UNCHANGED <<loc, database_lock>>
            ELSE /\ loc' = [loc EXCEPT ![t].seller = seller]
                 /\ pc' = [pc EXCEPT ![t] = "delete_check"]
                 /\ database_lock' = 0
                 /\ UNCHANGED resp
    /\ UNCHANGED <<sellers, REGISTERED_TOKENS, transaction_log, op, nreq,
                   commits, applied, issued>>

\* ep_delete_seller up to the loading of the seller
ep_delete_seller(t) ==
    /\ AtHandler(t, "delete_seller")
    /\ \E seller_id \in Ids :
         LET seller == get_seller(sellers, seller_id)
         IN IF seller = NoSeller
            THEN Leave(t, Response(404)) /\ UNCHANGED loc
            ELSE /\ loc' = [loc EXCEPT ![t].seller = seller]
                 /\ pc' = [pc EXCEPT ![t] = "delete_check"]
                 /\ UNCHANGED resp
    /\ ReadOnly

\* balance_not_zero as a comparison of the stored text with "0"
balance_not_zero_text(balance) == balance # <<"0">>

\* Decimal(seller.balance) != 0
balance_not_zero(balance) == ~DecimalIsZero(StrToDecimal(balance))

\* ep_delete_seller from the balance check on
ep_delete_seller_remove(t) ==
    /\ pc[t] = "delete_check"
    /\ IF balance_not_zero(loc[t].seller.balance)
       THEN Leave(t, Response(403)) /\ UNCHANGED sellers
       ELSE /\ sellers' = remove_seller(sellers, loc[t].seller)
            /\ Leave(t, [Response(200) EXCEPT
                            !.sellers = <<from_sql(loc[t].seller)>>])
    /\ UNCHANGED <<database_lock, REGISTERED_TOKENS, transaction_log, op, loc,
                   nreq, commits, applied, issued>>

\* ep_patch_seller storing the patched seller as a fresh row
ep_patch_seller_fresh(t) ==
    /\ AtHandler(t, "patch_seller")
    /\ \E seller_id \in Ids, modification \in SellerModifyModels :
         IF seller_id \notin DOMAIN sellers
         THEN Leave(t, Response(404)) /\ UNCHANGED sellers
         ELSE /\ sellers' = [update_seller(sellers, seller_id, modification)
                                EXCEPT ![seller_id].balance = <<"0">>]
              /\ Leave(t, [Response(200) EXCEPT !.sellers =
                    <<from_sql(get_seller(sellers', seller_id))>>])
    /\ UNCHANGED <<database_lock, REGISTERED_TOKENS, transaction_log, op, loc,
                   nreq, commits, applied, issued>>

\* PATCH /sellers/{seller_id}
ep_patch_seller(t) ==
    /\ AtHandler(t, "patch_seller")
    /\ \E seller_id \in Ids, modification \in SellerModifyModels :
         IF seller_id \notin DOMAIN sellers
         THEN Leave(t, Response(404)) /\ UNCHANGED sellers
         ELSE /\ sellers' = update_seller(sellers, seller_id, modification)
              /\ Leave(t, [Response(200) EXCEPT !.sellers =
                    <<from_sql(get_seller(sellers', seller_id))>>])
    /\ UNCHANGED <<database_lock, REGISTERED_TOKENS, transaction_log, op, loc,
                   nreq, commits, applied, issued>>

\* one row of the export: id, name, balance, rate, provision, earnings
csv_row(s) ==
    LET row[balance \in {StrToDecimal(s.balance)},
            rate \in {StrToDecimal(s.rate)}] ==
            [id |-> s.id, name |-> s.name, balance |-> DecimalToStr(balance),
             rate |-> DecimalToStr(rate),
             provision |-> DecimalToStr(DecimalMul(balance, rate)),
             earnings |-> DecimalToStr(DecimalMul(balance,
                             DecimalSub([coef |-> 1, exp |-> 0], rate)))]
    IN row[StrToDecimal(s.balance), StrToDecimal(s.rate)]

ep_exportcsv(t) ==
    /\ AtHandler(t, "exportcsv")
    /\ LET all == get_all_sellers(sellers)
       IN Leave(t, [Response(200) EXCEPT
                      !.rows = [i \in 1..Len(all) |-> csv_row(all[i])]])
    /\ UNCHANGED loc
    /\ ReadOnly

(* ----------------------------- POST /sell ------------------------------ *)
\* {item.sellerId for item in items}.difference(sql_sellers.keys())
unknown_sellers(items, sql_sellers) ==
    {items[i].sellerId : i \in 1..Len(items)} \ DOMAIN sql_sellers

\* next(filter(...))[0]: the index, from 0, of the first item of seller_id
relevant_index(items, seller_id) ==
    (CHOOSE i \in 1..Len(items) :
        /\ items[i].sellerId = seller_id
        /\ \A j \in 1..(i - 1) : items[j].sellerId # seller_id) - 1

\* a dict key: a str and an int are never the same key
StrKey(i) == [type |-> "str", text |-> NatToChars(i)]
IntKey(i) == [type |-> "int", text |-> NatToChars(i)]

\* dict.setdefault
setdefault(d, key, default) ==
    IF key \in DOMAIN d THEN d
    ELSE [k \in DOMAIN d \cup {key} |-> IF k = key THEN default ELSE d[k]]

\* the loop over unknown_sellers: setdefault under str(relevant_index), then
\* error_message[relevant_index], which raises KeyError when that key is absent
RECURSIVE error_loop(_, _, _)
error_loop(items, todo, error_message) ==
    IF todo = {} THEN [raised |-> FALSE, error_message |-> error_message]
    ELSE LET seller_id == CHOOSE s \in todo : TRUE
             idx == relevant_index(items, seller_id)
             em == setdefault(error_message, StrKey(idx),
                              [fields |-> <<>>, reasons |-> <<>>])
         IN IF IntKey(idx) \notin DOMAIN em
            THEN [raised |-> TRUE, error_message |-> em]
            ELSE error_loop(items, todo \ {seller_id},
                    [em EXCEPT ![IntKey(idx)].fields = Append(@, "sellerId")])

\* apply_items with every price added to the balance the snapshot held, so
\* that of several items of one seller only the last one counts
apply_items_last_wins(items, i, sql_sellers, relevant_sellers) ==
    LET of(id) == {k \in 1..Len(items) : items[k].sellerId = id}
        last(id) == CHOOSE k \in of(id) : \A j \in of(id) : j <= k
    IN [sql_sellers |->
           [id \in DOMAIN sql_sellers |->
               IF of(id) = {} THEN sql_sellers[id]
               ELSE [sql_sellers[id] EXCEPT !.balance = DecimalToStr(
                       DecimalAdd(StrToDecimal(sql_sellers[id].balance),
                                  items[last(id)].price))]],
        relevant_sellers |-> {items[k].sellerId : k \in 1..Len(items)}]

\* the loop over items: each price is added to its seller's balance in memory
RECURSIVE apply_items(_, _, _, _)
apply_items(items, i, sql_sellers, relevant_sellers) ==
    IF i > Len(items)
    THEN [sql_sellers |-> sql_sellers, relevant_sellers |-> relevant_sellers]
    ELSE LET seller == sql_sellers[items[i].sellerId]
             balance == StrToDecimal(seller.balance)
         IN apply_items(items, i + 1,
                [sql_sellers EXCEPT ![items[i].sellerId].balance =
                    DecimalToStr(DecimalAdd(balance, items[i].price))],
                relevant_sellers \cup {items[i].sellerId})

\* sell_body with the items of unknown sellers skipped instead of the batch
\* being rejected
sell_body_partial(items, sql_sellers) ==
    LET known(item) == item.sellerId \in DOMAIN sql_sellers
        done == apply_items(SelectSeq(items, known), 1, sql_sellers, {})
    IN [status |-> 200, error |-> EmptyFn, sql_sellers |-> done.sql_sellers,
        relevant_sellers |-> done.relevant_sellers]

\* sell_body refusing a batch without items
sell_body_nonempty(items, sql_sellers) ==
    LET done == apply_items(items, 1, sql_sellers, {})
    IN IF items = <<>> \/ unknown_sellers(items, sql_sellers) # {}
       THEN [status |-> 500, error |-> EmptyFn, sql_sellers |-> sql_sellers,
             relevant_sellers |-> {}]
       ELSE [status |-> 200, error |-> EmptyFn, sql_sellers |-> done.sql_sellers,
             relevant_sellers |-> done.relevant_sellers]

\* ep_sell from the snapshot to just before session.commit()
sell_body(items, sql_sellers) ==
    LET checked == error_loop(items, unknown_sellers(items, sql_sellers), EmptyFn)
        done == apply_items(items, 1, sql_sellers, {})
    IN IF checked.raised
       THEN [status |-> 500, error |-> EmptyFn, sql_sellers |-> sql_sellers,
             relevant_sellers |-> {}]
       ELSE IF DOMAIN checked.error_message # {}
       THEN [status |-> 400, error |-> checked.error_message,
             sql_sellers |-> sql_sellers, relevant_sellers |-> {}]
       ELSE [status |-> 200, error |-> EmptyFn, sql_sellers |-> done.sql_sellers,
             relevant_sellers |-> done.relevant_sellers]

\* the table as the session loads it
snapshot(db) == [id \in DOMAIN db |-> SellerObject(db, id)]

\* ep_sell with the lock held for the snapshot only
ep_sell_early_release(t) ==
    /\ AtHandler(t, "sell")
    /\ \E items \in Batches, host \in Hosts :
         LET out == sell_body(items, snapshot(sellers))
         IN /\ loc' = [loc EXCEPT ![t].items = items, ![t].origin = host,
                                  ![t].sql_sellers = out.sql_sellers,
                                  ![t].relevant_sellers = out.relevant_sellers,
                                  ![t].before =
                                      [id \in DOMAIN sellers |-> sellers[id].balance]]
            /\ IF out.status = 200
               THEN pc' = [pc EXCEPT ![t] = "sell_commit"] /\ UNCHANGED resp
               ELSE Leave(t, [Response(out.status) EXCEPT !.error = out.error])
    /\ database_lock' = 0
    /\ UNCHANGED <<sellers, REGISTERED_TOKENS, transaction_log, op, nreq,
                   commits, applied, issued>>

\* ep_sell: the snapshot, the validation and the in-memory mutation
ep_sell(t) ==
    /\ AtHandler(t, "sell")
    /\ \E items \in Batches, host \in Hosts :
         LET out == sell_body(items, snapshot(sellers))
         IN /\ loc' = [loc EXCEPT ![t].items = items, ![t].origin = host,
                                  ![t].sql_sellers = out.sql_sellers,
                                  ![t].relevant_sellers = out.relevant_sellers,
                                  ![t].before =
                                      [id \in DOMAIN sellers |-> sellers[id].balance]]
            /\ IF out.status = 200
               THEN pc' = [pc EXCEPT ![t] = "sell_commit"] /\ UNCHANGED resp
               ELSE Leave(t, [Response(out.status) EXCEPT !.error = out.error])
    /\ ReadOnly

RECURSIVE SumFor(_, _)
SumFor(items, id) ==
    IF items = <<>> THEN 0
    ELSE (IF Head(items).sellerId = id THEN Hundredths(Head(items).price) ELSE 0)
         + SumFor(Tail(items), id)

\* ep_sell: session.commit()
ep_sell_commit(t) ==
    /\ pc[t] = "sell_commit"
    /\ sellers' = session_commit(sellers, loc[t].sql_sellers,
                                 loc[t].relevant_sellers)
    /\ commits' = Append(commits, [items |-> loc[t].items,
                                   origin_ip |-> loc[t].origin])
    /\ applied' = [id \in Ids |-> applied[id] + SumFor(loc[t].items, id)]
    /\ pc' = [pc EXCEPT ![t] = "sell_notify"]
    /\ UNCHANGED <<database_lock, REGISTERED_TOKENS, transaction_log, op, loc,
                   resp, nreq, issued>>

\* TransactionLogger.add_transaction(*items, origin_ip): the call is recorded
\* and returns, with any number of items
add_transaction(log, items, origin_ip) ==
    Append(log, [items |-> items, origin_ip |-> origin_ip])

\* ep_sell_notify passing the first item only
ep_sell_notify_first_item(t) ==
    /\ pc[t] = "sell_notify"
    /\ transaction_log' = Append(transaction_log,
            [items |-> IF loc[t].items = <<>> THEN <<>>
                       ELSE <<Head(loc[t].items)>>,
             origin_ip |-> loc[t].origin])
    /\ pc' = [pc EXCEPT ![t] = "sell_return"]
    /\ UNCHANGED <<sellers, database_lock, REGISTERED_TOKENS, op, loc, resp,
                   nreq, commits, applied, issued>>

\* ep_sell: transaction_logger.add_transaction(*items, origin_ip=...)
ep_sell_notify(t) ==
    /\ pc[t] = "sell_notify"
    /\ transaction_log' = add_transaction(transaction_log, loc[t].items,
                                          loc[t].origin)
    /\ pc' = [pc EXCEPT ![t] = "sell_return"]
    /\ UNCHANGED <<sellers, database_lock, REGISTERED_TOKENS, op, loc, resp,
                   nreq, commits, applied, issued>>

\* ep_sell: the views of relevant_sellers
ep_sell_return(t) ==
    /\ pc[t] = "sell_return"
    /\ LET ids == SeqOfIds(loc[t].relevant_sellers, 1)
       IN Leave(t, [Response(200) EXCEPT !.sellers =
                [i \in 1..Len(ids) |-> from_sql(loc[t].sql_sellers[ids[i]])]])
    /\ UNCHANGED loc
    /\ ReadOnly

(* --------------------------- the specification ------------------------- *)
Seller0 == [name |-> "n1", balance |-> <<"0">>, rate |-> <<"0", ".", "1">>]

\* the process has just started over a table holding seller A, or has
\* already served one successful login
Init ==
    /\ sellers = [id \in {"A"} |-> Seller0]
    /\ database_lock = 0
    /\ REGISTERED_TOKENS \in {{}, {jwt_encode("h1", 0)}}
    /\ transaction_log = <<>>
    /\ pc = [t \in Threads |-> "idle"]
    /\ op = [t \in Threads |-> "login"]
    /\ loc = [t \in Threads |-> Loc0]
    /\ resp = [t \in Threads |-> Resp0]
    /\ nreq = 0
    /\ commits = <<>>
    /\ applied = [id \in Ids |-> 0]
    /\ issued = REGISTERED_TOKENS

Next ==
    \E t \in Threads :
        \/ receive(t)
        \/ ep_login(t)
        \/ ep_login_add(t)
        \/ ep_login_return(t)
        \/ get_session_enter(t)
        \/ auth_call(t)
        \/ is_authorised_next(t)
        \/ ep_get_sellers(t)
        \/ ep_post_seller(t)
        \/ ep_get_seller(t)
        \/ ep_delete_seller(t)
        \/ ep_delete_seller_remove(t)
        \/ ep_patch_seller(t)
        \/ ep_sell(t)
        \/ ep_sell_commit(t)
        \/ ep_sell_notify(t)
        \/ ep_sell_return(t)
        \/ ep_exportcsv(t)
        \/ get_session_exit(t)

Spec == Init /\ [][Next]_vars

\* the steps of thread t on a request it has received, the wait for
\* database_lock excepted
Serve(t) ==
    \/ ep_login(t)
    \/ ep_login_add(t)
    \/ ep_login_return(t)
    \/ auth_call(t)
    \/ is_authorised_next(t)
    \/ ep_get_sellers(t)
    \/ ep_post_seller(t)
    \/ ep_get_seller(t)
    \/ ep_delete_seller(t)
    \/ ep_delete_seller_remove(t)
    \/ ep_patch_seller(t)
    \/ ep_sell(t)
    \/ ep_sell_commit(t)
    \/ ep_sell_notify(t)
    \/ ep_sell_return(t)
    \/ ep_exportcsv(t)
    \/ get_session_exit(t)

\* the program with LiveRequests requests in all
LiveNext ==
    \E t \in Threads :
        \/ receive(t) /\ nreq < LiveRequests
        \/ get_session_enter(t)
        \/ Serve(t)

\* a thread that can run gets to run, and a thread blocked in
\* `with database_lock` gets the lock if it is free again and again; nothing
\* makes a request arrive
FairSpec ==
    /\ Init
    /\ [][LiveNext]_vars
    /\ \A t \in Threads : WF_vars(Serve(t)) /\ SF_vars(get_session_enter(t))

(* ------------------------------- claims -------------------------------- *)
\* the positions of a thread inside ep_sell after its first step
AfterSell(t) ==
    /\ op[t] = "sell"
    /\ pc[t] \in {"sell_commit", "sell_notify", "sell_return", "release"}

\* thread t is serving a batch that names a seller the registry does not hold
HasUnknown(t) == AfterSell(t) /\ unknown_sellers(loc[t].items, sellers) # {}

\* C1: a settle whose batch holds an item of an unknown seller leaves the
\* sellers table (the set of sellers and every balance) and the audit log as
\* they were, from the step that reads the batch to the end of the request.
C1_RejectedBatchChangesNothing ==
    [][(\E t \in Threads :
          \/ HasUnknown(t)
          \/ /\ AtHandler(t, "sell")
             /\ pc'[t] # "handler"
             /\ unknown_sellers(loc'[t].items, sellers) # {})
       => (sellers' = sellers /\ transaction_log' = transaction_log)]_vars

\* a rejected batch [known, unknown] has been answered
C1_Witness ==
    \E t \in Threads :
        /\ HasUnknown(t)
        /\ pc[t] = "release"
        /\ resp[t].status >= 400
        /\ Len(loc[t].items) = 2
        /\ loc[t].items[1].sellerId \in DOMAIN sellers
        /\ loc[t].items[2].sellerId \notin DOMAIN sellers

\* the batch indices (from 0, as str keys) of the items of unknown sellers
OffendingKeys(items, db) ==
    {StrKey(i - 1) : i \in {j \in 1..Len(items) : items[j].sellerId \notin DOMAIN db}}

\* C2: a rejected settle answers 400 with an error report whose keys are
\* exactly the indices of the items of unknown sellers, each naming the
\* field "sellerId".
C2_ErrorReportNamesOffendingItems ==
    \A t \in Threads :
        (HasUnknown(t) /\ pc[t] = "release") =>
            /\ resp[t].status = 400
            /\ DOMAIN resp[t].error = OffendingKeys(loc[t].items, sellers)
            /\ \A k \in DOMAIN resp[t].error :
                  \E i \in 1..Len(resp[t].error[k].fields) :
                      resp[t].error[k].fields[i] = "sellerId"

\* the exact value, in hundredths, of a stored balance
BalanceOf(db, id) == Hundredths(StrToDecimal(db[id].balance))

\* C3: the balance of every seller is 0 plus the exact sum of the prices of
\* all items committed for it since its creation, however the items were
\* grouped into batches.
C3_BalanceIsSumOfApplied ==
    \A id \in DOMAIN sellers : BalanceOf(sellers, id) = applied[id]

\* a batch of two items and a batch of one item have been committed for A
C3_Witness ==
    /\ Len(commits) = 2
    /\ Len(commits[1].items) = 2
    /\ Len(commits[2].items) = 1
    /\ applied["A"] = 3150
    /\ sellers["A"].balance = <<"3", "1", ".", "5", "0">>
    /\ \A t \in Threads : pc[t] \in {"idle", "done"}

OneItem(id, a) == <<[sellerId |-> id, price |-> a]>>

\* C4: no two settles hold a snapshot that is not yet committed at the same
\* time, and when every committed batch is the one item (A, a), the balance
\* of A is the number of those batches times a.
C4_NoLostUpdate ==
    /\ \A t1, t2 \in Threads :
          (pc[t1] = "sell_commit" /\ pc[t2] = "sell_commit") => t1 = t2
    /\ \A a \in Prices :
          (/\ "A" \in DOMAIN sellers
           /\ \A i \in 1..Len(commits) : commits[i].items = OneItem("A", a))
          => BalanceOf(sellers, "A") = Len(commits) * Hundredths(a)

\* every thread has served one settle of (A, 10.50) and all have completed
C4_Witness ==
    /\ nreq = NumThreads
    /\ \A t \in Threads :
          pc[t] = "done" /\ op[t] = "sell" /\ resp[t].status = 200
    /\ Len(commits) = NumThreads
    /\ \A i \in 1..Len(commits) :
          commits[i].items = OneItem("A", [coef |-> 1050, exp |-> -2])
    /\ BalanceOf(sellers, "A") = NumThreads * 1050

Unauthenticated(t) ==
    /\ op[t] # "login"
    /\ \/ pc[t] \in {"auth", "auth_iter"}
       \/ pc[t] = "release" /\ loc[t].api_key \notin REGISTERED_TOKENS

\* C6: a request to a guarded endpoint without a token, or with a token that
\* is not registered, is answered 401 and changes neither the sellers table
\* nor the audit log.
C6_UnauthenticatedIs401 ==
    /\ [](\A t \in Threads :
            (Unauthenticated(t) /\ pc[t] = "release") => resp[t].status = 401)
    /\ [][(\E t \in Threads : Unauthenticated(t))
          => (sellers' = sellers /\ transaction_log' = transaction_log)]_vars

\* C7: a delete of an existing seller succeeds and removes the row exactly
\* when the prices applied to it sum to 0; otherwise it is refused with 403
\* and the row stays with its balance.
C7_DeleteIffZeroBalance ==
    \A t \in Threads :
        (op[t] = "delete_seller" /\ pc[t] = "release"
         /\ loc[t].seller # NoSeller) =>
            LET id == loc[t].seller.id
            IN IF applied[id] = 0
               THEN resp[t].status = 200 /\ id \notin DOMAIN sellers
               ELSE /\ resp[t].status = 403
                    /\ id \in DOMAIN sellers
                    /\ sellers[id].balance = loc[t].seller.balance
                    /\ BalanceOf(sellers, id) = applied[id]

\* A has been deleted after the settles +10.50 and -10.50
C7_Witness ==
    \E t \in Threads :
        /\ op[t] = "delete_seller" /\ pc[t] = "release"
        /\ resp[t].status = 200
        /\ loc[t].seller.id = "A"
        /\ loc[t].seller.balance = <<"0", ".", "0", "0">>
        /\ Len(commits) = 2
        /\ commits[1].items = OneItem("A", [coef |-> 1050, exp |-> -2])
        /\ commits[2].items = OneItem("A", [coef |-> -1050, exp |-> -2])
        /\ "A" \notin DOMAIN sellers

\* C8: the add_transaction calls are the committed batches in commit order;
\* only the batch of the settle that stands between its commit and its call
\* is missing.
C8_LogFollowsCommits ==
    LET pending == {t \in Threads : pc[t] = "sell_notify"}
    IN IF pending = {} THEN transaction_log = commits
       ELSE \E t \in pending :
              commits = Append(transaction_log,
                  [items |-> loc[t].items, origin_ip |-> loc[t].origin])

\* two different batches of two items have been committed and logged
C8_Witness ==
    /\ Len(transaction_log) = 2
    /\ transaction_log = commits
    /\ transaction_log[1] # transaction_log[2]
    /\ Len(transaction_log[1].items) = 2
    /\ transaction_log[1].origin_ip # transaction_log[2].origin_ip

\* the positions between get_session's `with database_lock` and its exit
InSection(t) ==
    pc[t] \in {"auth", "auth_iter", "handler", "delete_check", "sell_commit",
               "sell_notify", "sell_return", "release"}

\* C9: at most one thread is inside the guarded section, it is the holder of
\* database_lock, every guarded endpoint runs inside it, and the holder gives
\* the lock up only in get_session's exit.
C9_OneRequestInSection ==
    /\ [](\A t \in Threads : InSection(t) <=> database_lock = t)
    /\ [](\A t \in Threads :
            (op[t] # "login" /\ pc[t] \notin {"idle", "acquire", "done"})
            => InSection(t))
    /\ [][\A t \in Threads :
            (database_lock = t /\ database_lock' # t) => pc[t] = "release"]_vars

\* a settle stands between commit and notification while a delete waits
C9_Witness ==
    \E t1, t2 \in Threads :
        /\ pc[t1] = "sell_notify" /\ database_lock = t1
        /\ pc[t2] = "acquire" /\ op[t2] = "delete_seller"

\* the sellers the items of a batch name
Referenced(items) == {items[i].sellerId : i \in 1..Len(items)}

\* C10: an accepted settle returns one view for each seller its items name
\* and no other; the view shows the committed balance, which is the balance
\* before the batch plus the sum of the prices of all its items.
C10_BatchAccumulates ==
    \A t \in Threads :
        (op[t] = "sell" /\ pc[t] = "release" /\ resp[t].status = 200) =>
            LET out == resp[t].sellers
            IN /\ {out[i].id : i \in 1..Len(out)} = Referenced(loc[t].items)
               /\ Len(out) = Cardinality(Referenced(loc[t].items))
               /\ \A i \in 1..Len(out) :
                     /\ out[i].balance = sellers[out[i].id].balance
                     /\ Hundredths(StrToDecimal(out[i].balance)) =
                          Hundredths(StrToDecimal(loc[t].before[out[i].id]))
                          + SumFor(loc[t].items, out[i].id)

\* a batch of two items of 10.50 for A has been answered with one view
C10_Witness ==
    \E t \in Threads :
        /\ op[t] = "sell" /\ pc[t] = "release" /\ resp[t].status = 200
        /\ Len(loc[t].items) = 2
        /\ \A i \in 1..2 : loc[t].items[i] = [sellerId |-> "A",
                                   price |-> [coef |-> 1050, exp |-> -2]]
        /\ Len(resp[t].sellers) = 1
        /\ resp[t].sellers[1].balance = <<"2", "1", ".", "0", "0">>

\* the token check has accepted the header of thread t's request
Accepted(t) ==
    pc[t] \in {"handler", "delete_check", "sell_commit", "sell_notify",
               "sell_return"}

\* the tokens that logins with the right password have registered and are
\* about to return
BeingReturned ==
    {loc[u].token : u \in {v \in Threads :
        /\ op[v] = "login" /\ pc[v] = "login_return"
        /\ compare_digest(loc[v].password, ConfigPswd)}}

\* C11 as stated: the token check accepts a string only if a login has
\* already returned it.
C11_AcceptedOnlyIfReturned ==
    /\ \A key \in ApiKeys :
          is_authorised(REGISTERED_TOKENS, key) => key \in issued
    /\ \A t \in Threads : Accepted(t) => loc[t].api_key \in issued

\* C11 as amended: the token check accepts a string only if a login that
\* passed the password check has registered it; that login has returned it
\* or stands between REGISTERED_TOKENS.add and its return.
C11_AcceptedOnlyIfRegisteredByLogin ==
    /\ \A key \in ApiKeys :
          is_authorised(REGISTERED_TOKENS, key)
          => key \in issued \cup BeingReturned
    /\ \A t \in Threads :
          Accepted(t) => loc[t].api_key \in issued \cup BeingReturned

\* a request has been accepted with the token of a login that has not
\* returned yet
C11_Witness ==
    \E t, u \in Threads :
        /\ Accepted(t)
        /\ op[u] = "login" /\ pc[u] = "login_return"
        /\ loc[t].api_key = loc[u].token
        /\ loc[u].token \notin issued

\* thread t serves a settle whose handler has read an empty batch
EmptySell(t) ==
    /\ AfterSell(t)
    /\ loc[t].origin # ""
    /\ loc[t].items = <<>>

\* C12: a settle with an empty batch that passed the token check is answered
\* 200 with an empty list of sellers, and no step of it, from the reading of
\* the batch to the release of the lock, changes the sellers table.
C12_EmptyBatchIsNoOp ==
    /\ [](\A t \in Threads :
            (EmptySell(t) /\ pc[t] = "release")
            => /\ resp[t].status = 200
               /\ resp[t].sellers = <<>>
               /\ DOMAIN resp[t].error = {})
    /\ [][\A t \in Threads :
            (EmptySell(t) \/ EmptySell(t)')
            => (pc'[t] # pc[t] => sellers' = sellers)]_vars

\* an empty settle has been answered while a seller holds a balance that is
\* not zero
C12_Witness ==
    \E t \in Threads :
        /\ EmptySell(t) /\ pc[t] = "release"
        /\ resp[t].status = 200
        /\ applied["A"] # 0

\* C13: the holder of database_lock is a request that has not finished;
\* every holder gives the lock up again, and every request that waits for
\* the lock gets it and is answered.
C13_LockAlwaysReleased ==
    /\ [](\A t \in Threads :
            database_lock = t => pc[t] \notin {"idle", "done", "acquire"}
                                /\ op[t] # "login")
    /\ \A t \in Threads : (database_lock = t) ~> (database_lock # t)
    /\ \A t \in Threads : (pc[t] = "acquire") ~> (pc[t] = "done")

\* a request whose handler raised is finished, and the thread that waited
\* behind it holds the lock
C13_Witness ==
    \E t, u \in Threads :
        /\ pc[t] = "done" /\ op[t] = "sell" /\ resp[t].status = 500
        /\ database_lock = u /\ u # t
        /\ nreq = 2

\* C14: a step changes the stored balance of a seller that exists before and
\* after it only if it is the session.commit() of a settle whose batch names
\* that seller; list, get, export, login, create, patch, delete and a
\* rejected settle change no balance, and a delete that is refused or finds
\* no seller removes nothing.
C14_BalanceChangesOnlyBySettle ==
    [][/\ \A id \in DOMAIN sellers \cap DOMAIN sellers' :
            sellers'[id].balance # sellers[id].balance
            => \E t \in Threads :
                  /\ op[t] = "sell"
                  /\ pc[t] = "sell_commit" /\ pc'[t] = "sell_notify"
                  /\ id \in Referenced(loc[t].items)
        /\ \A gone \in DOMAIN sellers \ DOMAIN sellers' :
            \E u \in Threads :
                  /\ op[u] = "delete_seller"
                  /\ loc[u].seller.id = gone
                  /\ pc[u] = "delete_check" /\ resp'[u].status = 200
      ]_vars

\* a settle naming A alone has committed a balance that is not zero while B
\* exists too
C14_Witness ==
    \E t \in Threads :
        /\ op[t] = "sell" /\ pc[t] = "sell_notify"
        /\ Referenced(loc[t].items) = {"A"}
        /\ {"A", "B"} \subseteq DOMAIN sellers
        /\ BalanceOf(sellers, "A") # 0

\* C15: no step removes a seller whose committed balance is not zero, and a
\* settle that stands before its session.commit() finds every seller of its
\* batch still in the table with the balance its snapshot held, while no
\* delete stands between its balance check and its removal.
C15_DeleteAtomicWithSettle ==
    /\ [][\A gone \in DOMAIN sellers \ DOMAIN sellers' :
            BalanceOf(sellers, gone) = 0]_vars
    /\ [](\A t \in Threads :
            (op[t] = "sell" /\ pc[t] = "sell_commit")
            => /\ Referenced(loc[t].items) \subseteq DOMAIN sellers
               /\ \A id \in Referenced(loc[t].items) :
                     sellers[id].balance = loc[t].before[id]
               /\ \A u \in Threads : pc[u] # "delete_check")
    /\ [](\A u \in Threads :
            (op[u] = "delete_seller" /\ pc[u] = "delete_check")
            => /\ loc[u].seller.id \in DOMAIN sellers
               /\ sellers[loc[u].seller.id].balance = loc[u].seller.balance)

\* after a settle has committed, a delete of A stands between loading A,
\* whose balance is zero, and the balance check while a settle waits for the
\* lock
C15_Witness ==
    \E t, u \in Threads :
        /\ op[t] = "delete_seller" /\ pc[t] = "delete_check"
        /\ loc[t].seller.id = "A"
        /\ BalanceOf(sellers, "A") = 0
        /\ applied["A"] = 0 /\ Len(commits) > 0
        /\ op[u] = "sell" /\ pc[u] = "acquire"

\* the token check of thread t's request has failed
AuthFailed(t) ==
    /\ op[t] # "login"
    /\ pc[t] = "release"
    /\ loc[t].origin = ""
    /\ resp[t].status \in {401, 500}

\* C16: a request that presents a token a login had returned before the
\* request's token check began passes the check, whatever logins add to
\* REGISTERED_TOKENS while is_authorised iterates over it.
C16_ValidTokenPassesDuringLogins ==
    \A t \in Threads : loc[t].was_issued => ~AuthFailed(t)

====
